---------------------------- MODULE Spec2Model ----------------------------
(***************************************************************************)
(* Electricity cost engine of ratescompare: the wide-format program        *)
(* (calculate.py) and the import/export program (eip13a.py).               *)
(*                                                                         *)
(* Representation.  A time string is the sequence of its characters, so    *)
(* that parse_time_str is modelled by what it does (split on ":" and       *)
(* int() of the two parts).  A timedelta is its number of minutes.  Money  *)
(* is an integer number of units of 1/10000 of the currency (so a cent is  *)
(* CentUnits units), energy an integer number of units of 0.005 kWh (so    *)
(* 0.01 kWh is HundredthKwhUnits units) and a rate an amount of money per  *)
(* unit of energy: the arithmetic of the programs is modelled as exact     *)
(* decimal arithmetic.  An optional                                        *)
(* value (None or a value, a missing or a present key) is a sequence of    *)
(* length 0 or 1.  A raised ValueError is a result record with err = TRUE. *)
(*                                                                         *)
(* Not modelled: binary floating point (amounts are exact; the rates,      *)
(* quantities and discounts of the inputs below make every percentage an   *)
(* integer number of units), NaN quantities and NaT dates, the CSV and     *)
(* YAML text (the model starts from the loaded tables), console output.    *)
(* A date is its number of days since Monday 2024-01-01.                   *)
(***************************************************************************)
EXTENDS Integers, Sequences, FiniteSets, TLC

\* ----------------------------------------------------------------- bounds
MaxBands == 2
MaxQ == 2
MaxPlans == 2
MaxRows == 2
NSlots == 3

\* ------------------------------------------------------ program constants
SlotMinutes == 30
DayMinutes == 1440
WeekendFrom == 5
CentUnits == 100
HundredthKwhUnits == 2

\* ------------------------------------------------------------ time strings
Digits == {"0", "1", "2", "3", "4", "5", "6", "7", "8", "9"}

DigitVal(c) ==
    CASE c = "0" -> 0 [] c = "1" -> 1 [] c = "2" -> 2 [] c = "3" -> 3
      [] c = "4" -> 4 [] c = "5" -> 5 [] c = "6" -> 6 [] c = "7" -> 7
      [] c = "8" -> 8 [] c = "9" -> 9

T0000 == <<"0", "0", ":", "0", "0">>
T0030 == <<"0", "0", ":", "3", "0">>
T0700 == <<"0", "7", ":", "0", "0">>
T2330 == <<"2", "3", ":", "3", "0">>
TNoColon == <<"0", "7", "0", "0">>
TNotInt == <<"0", "7", ":", "x", "0">>

Ok(v) == [err |-> FALSE, v |-> v]
ParseError == [err |-> TRUE, v |-> 0]

\* str.split(":")
RECURSIVE SplitColon(_)
SplitColon(s) ==
    IF \A i \in 1..Len(s) : s[i] # ":"
    THEN <<s>>
    ELSE LET k == CHOOSE i \in 1..Len(s) :
                      s[i] = ":" /\ \A j \in 1..(i - 1) : s[j] # ":"
         IN <<SubSeq(s, 1, k - 1)>> \o SplitColon(SubSeq(s, k + 1, Len(s)))

\* int(part): the value of a string of decimal digits; any other string of
\* the inputs below (empty, or holding a letter) raises ValueError
RECURSIVE DigitsValue(_)
DigitsValue(part) ==
    IF part = <<>> THEN 0
    ELSE 10 * DigitsValue(SubSeq(part, 1, Len(part) - 1)) + DigitVal(part[Len(part)])

IntOf(part) ==
    IF part # <<>> /\ \A i \in 1..Len(part) : part[i] \in Digits
    THEN Ok(DigitsValue(part))
    ELSE ParseError

\* hours, minutes = map(int, time_str.split(":")); timedelta(hours, minutes)
parse_time_str(time_str) ==
    LET parts == SplitColon(time_str)
    IN IF Len(parts) # 2 THEN ParseError
       ELSE LET hours == IntOf(parts[1])
                minutes == IntOf(parts[2])
            IN IF hours.err \/ minutes.err THEN ParseError
               ELSE Ok(60 * hours.v + minutes.v)

\* faulty variant: the end is compared as parsed
EndOf_NoSubstitution(end_td) == end_td

\* the end of a band as compared: timedelta(hours=24) when it is zero
EndOf(end_td) == IF end_td = 0 THEN DayMinutes ELSE end_td

\* ----------------------------------------------- eip13a.calculate_band_cost
RECURSIVE eip_calculate_band_cost(_, _, _)
eip_calculate_band_cost(kwh, interval_time, bands) ==
    IF bands = <<>> THEN Ok(0)
    ELSE LET band == Head(bands)
             start_td == parse_time_str(band.start)
             end_td == parse_time_str(band.end)
         IN IF start_td.err \/ end_td.err THEN ParseError
            ELSE IF start_td.v <= interval_time /\ interval_time < EndOf(end_td.v)
                 THEN Ok(kwh * band.rate)
                 ELSE eip_calculate_band_cost(kwh, interval_time, Tail(bands))

\* -------------------------------------------- calculate.calculate_band_cost
\* band_ranges: every band of the applicable list is parsed before any slot
RECURSIVE BandRanges(_)
BandRanges(applicable_bands) ==
    IF applicable_bands = <<>> THEN Ok(<<>>)
    ELSE LET band == Head(applicable_bands)
             start_td == parse_time_str(band.start)
             end_td == parse_time_str(band.end)
             rest == BandRanges(Tail(applicable_bands))
         IN IF start_td.err \/ end_td.err \/ rest.err THEN ParseError
            ELSE Ok(<<[start |-> start_td.v, end |-> end_td.v, rate |-> band.rate]>>
                    \o rest.v)

\* faulty variant: the inner loop over band_ranges without its break
RECURSIVE SlotCost_NoBreak(_, _, _)
SlotCost_NoBreak(kwh, interval_time, band_ranges) ==
    IF band_ranges = <<>> THEN 0
    ELSE LET b == Head(band_ranges)
         IN (IF b.start <= interval_time /\ interval_time < EndOf(b.end)
             THEN kwh * b.rate ELSE 0)
            + SlotCost_NoBreak(kwh, interval_time, Tail(band_ranges))

\* the inner loop over band_ranges for one slot: what it adds to total_cost
RECURSIVE SlotCost(_, _, _)
SlotCost(kwh, interval_time, band_ranges) ==
    IF band_ranges = <<>> THEN 0
    ELSE LET b == Head(band_ranges)
         IN IF b.start <= interval_time /\ interval_time < EndOf(b.end)
            THEN kwh * b.rate
            ELSE SlotCost(kwh, interval_time, Tail(band_ranges))

RECURSIVE SumSlots(_, _, _, _)
SumSlots(row, interval_times, band_ranges, i) ==
    IF i > Len(interval_times) THEN 0
    ELSE SlotCost(row[i], interval_times[i], band_ranges)
         + SumSlots(row, interval_times, band_ranges, i + 1)

calc_calculate_band_cost(row, interval_times, bands, is_weekend) ==
    LET applicable_bands == IF is_weekend THEN bands.weekend ELSE bands.weekday
        band_ranges == BandRanges(applicable_bands)
    IN IF band_ranges.err THEN ParseError
       ELSE Ok(SumSlots(row, interval_times, band_ranges.v, 1))

\* ------------------------------------------------------------- arithmetic
RECURSIVE SumSeq(_)
SumSeq(s) == IF s = <<>> THEN 0 ELSE Head(s) + SumSeq(Tail(s))

\* the sum of s over the positions in idx
RECURSIVE SumAt(_, _)
SumAt(s, idx) ==
    IF idx = {} THEN 0
    ELSE LET i == CHOOSE j \in idx : TRUE IN s[i] + SumAt(s, idx \ {i})

\* x rounded to the nearest multiple of m, ties to the even multiple
RoundTo(x, m) ==
    LET k == x \div m
        r == x % m
    IN IF 2 * r < m THEN m * k
       ELSE IF 2 * r > m THEN m * (k + 1)
       ELSE IF k % 2 = 0 THEN m * k ELSE m * (k + 1)

\* .round(2) of an amount of money
Round2(x) == RoundTo(x, CentUnits)

\* ascending sequence of the elements of a finite set of integers
RECURSIVE SortSet(_)
SortSet(S) ==
    IF S = {} THEN <<>>
    ELSE LET m == CHOOSE x \in S : \A y \in S : x <= y
         IN <<m>> \o SortSet(S \ {m})

RECURSIVE Concat(_)
Concat(tables) == IF tables = <<>> THEN <<>> ELSE Head(tables) \o Concat(Tail(tables))

SeqsUpTo(S, n) == UNION {[1..k -> S] : k \in 1..n}

\* --------------------------------------------------------------- calendar
\* day.weekday() of a date (days since Monday 2024-01-01): Monday is 0
weekday(date) == date % 7

\* the monthly period (to_period("M")) of a date, as year * 12 + month - 1
PeriodOf(date) ==
    IF date < 31 THEN 2024 * 12 ELSE IF date < 60 THEN 2024 * 12 + 1 ELSE 2024 * 12 + 2

\* strftime("%Y-%m") of a period
MonthLabel(period) ==
    CASE period = 2024 * 12 -> "2024-01"
      [] period = 2024 * 12 + 1 -> "2024-02"
      [] OTHER -> "2024-03"

\* .round(2) of an amount of energy
Round2Kwh(x) == RoundTo(x, HundredthKwhUnits)

\* ------------------------------------------------------------------ state
VARIABLES
    prog,           \* "calc" (calculate.py), "eip" (eip13a.py) or "band"
    rate_plans,     \* the plans of the YAML file, in declaration order
    df,             \* calculate.py: the rows of the CSV, [date, slots]
    df_daily_kwh,   \* calculate.py: column df["daily_kwh"] (<<>>: absent)
    df_daily_cost,  \* calculate.py: column df["daily_cost"] (<<>>: absent)
    df_all,         \* eip13a.py: the readings, [date, minute, dir, kwh]
    pc,             \* "plan", "rows", "done" or "aborted"
    plan_ix,        \* the number of plans the plan loop has taken
    loop_ix,        \* the position of the inner loop (row or date group)
    daily_costs,    \* calculate.py: daily_costs of the plan in progress
    daily_results,  \* eip13a.py: daily_results of the plan in progress
    all_results,    \* the monthly tables appended so far
    out_file,       \* <<>> until written, then <<the rows of the file>>
    ev_q, ev_t, ev_bands,   \* inputs of one band cost evaluation
    ev_eip, ev_calc         \* its results (<<>>: not evaluated yet)

vars == <<prog, rate_plans, df, df_daily_kwh, df_daily_cost, df_all, pc, plan_ix,
          loop_ix, daily_costs, daily_results, all_results, out_file,
          ev_q, ev_t, ev_bands, ev_eip, ev_calc>>

progvars == <<prog, rate_plans, df, df_daily_kwh, df_daily_cost, df_all, pc, plan_ix,
              loop_ix, daily_costs, daily_results, all_results, out_file>>

evvars == <<ev_q, ev_t, ev_bands, ev_eip, ev_calc>>

\* ----------------------------------------------------------------- inputs
Band(start, end, rate) == [start |-> start, end |-> end, rate |-> rate]

\* bands of the evaluator's inputs: disjoint, overlapping, empty, malformed
BandPool ==
    { Band(T0000, T0700, 10), Band(T0700, T0000, 20), Band(T0000, T0000, 30),
      Band(T2330, T0000, 40), Band(T0700, T2330, 50), Band(T0700, T0700, 60),
      Band(TNoColon, T0000, 70), Band(T0000, TNotInt, 80) }

OffsetPool == {0, 30, 419, 420, 450, 1410, 1439}

WellFormed(bands) ==
    \A i \in 1..Len(bands) :
        ~parse_time_str(bands[i].start).err /\ ~parse_time_str(bands[i].end).err

\* interval_times = [timedelta(minutes=30 * i) for i in range(len(interval_cols))]
interval_times == [i \in 1..NSlots |-> SlotMinutes * (i - 1)]

Ramp == [i \in 1..NSlots |-> i % (MaxQ + 1)]
Flat1 == [i \in 1..NSlots |-> 1]
Down == [i \in 1..NSlots |-> (NSlots - i) % (MaxQ + 1)]

\* rows of the wide CSV: Fri 2024-01-05, Sat 2024-01-06, Thu 2024-02-01, Sat 2024-02-03
CalcRowPool ==
    { [date |-> 4, slots |-> Ramp], [date |-> 5, slots |-> Flat1],
      [date |-> 31, slots |-> Down], [date |-> 33, slots |-> Ramp] }

CalcPlan(title, daily_rate, per_kwh_rate, bands) ==
    [title |-> title, daily_rate |-> daily_rate, per_kwh_rate |-> per_kwh_rate,
     bands |-> bands]

CalcFlat == CalcPlan("flat", 110, <<30>>, <<>>)
CalcBanded ==
    CalcPlan("banded", 50, <<30>>,
             <<[weekday |-> <<Band(T0000, T0030, 10), Band(T0030, T0000, 20)>>,
                weekend |-> <<Band(T0000, T0000, 15)>>]>>)
CalcOverlap ==
    CalcPlan("overlap", 0, <<>>,
             <<[weekday |-> <<Band(T0030, T0000, 40), Band(T0000, T0000, 10)>>,
                weekend |-> <<Band(T0000, T0030, 25), Band(TNotInt, T0000, 10)>>]>>)
CalcBare == CalcPlan("bare", 70, <<>>, <<>>)

CalcPlanPool == {CalcFlat, CalcBanded, CalcOverlap, CalcBare}

\* ------------------------------------------------------ calculate.py main
\* faulty variant: the list of the previous plan is kept
NewDailyCosts_Keep(old) == old

\* daily_costs = [] at the start of a plan's iteration
NewDailyCosts(old) == <<>>

\* faulty variant: the flat branch adds daily_rate twice
calc_daily_cost_RateTwice(plan, row) ==
    IF plan.bands # <<>>
    THEN LET c == calc_calculate_band_cost(row.slots, interval_times, plan.bands[1],
                                           weekday(row.date) >= WeekendFrom)
         IN IF c.err THEN ParseError ELSE Ok(c.v + plan.daily_rate)
    ELSE LET kwh == SumSeq(row.slots)
             rate == IF plan.per_kwh_rate # <<>> THEN plan.per_kwh_rate[1] ELSE 0
         IN Ok(plan.daily_rate + plan.daily_rate + kwh * rate)

\* one iteration of the loop over df.iterrows(): the day's daily_cost
calc_daily_cost(plan, row) ==
    LET is_weekend == weekday(row.date) >= WeekendFrom
    IN IF plan.bands # <<>>
       THEN LET c == calc_calculate_band_cost(row.slots, interval_times, plan.bands[1],
                                              is_weekend)
            IN IF c.err THEN ParseError ELSE Ok(c.v + plan.daily_rate)
       ELSE LET kwh == SumSeq(row.slots)
                rate == IF plan.per_kwh_rate # <<>> THEN plan.per_kwh_rate[1] ELSE 0
            IN Ok(plan.daily_rate + kwh * rate)

\* faulty variant: Fixed_cost is daily_rate once per month
calc_monthly_FixedPerMonth(title, daily_rate, rows, daily_kwh, daily_cost) ==
    LET periods == SortSet({PeriodOf(rows[i].date) : i \in 1..Len(rows)})
        grp(p) == {i \in 1..Len(rows) : PeriodOf(rows[i].date) = p}
        one(p) ==
            LET n == Cardinality(grp(p))
                Fixed_cost == daily_rate
                Variable_cost == SumAt(daily_cost, grp(p)) - daily_rate * n
            IN [Title |-> title, Month |-> MonthLabel(p),
                Monthly_kWh |-> SumAt(daily_kwh, grp(p)), Days_in_month |-> n,
                Fixed_cost |-> Fixed_cost, Variable_cost |-> Variable_cost,
                Total_cost |-> Fixed_cost + Variable_cost]
    IN [k \in 1..Len(periods) |-> one(periods[k])]

\* df.groupby(df[date_col].dt.to_period("M")).agg(...) and the Total_cost,
\* Title and Month columns: one row per month, ascending
calc_monthly(title, daily_rate, rows, daily_kwh, daily_cost) ==
    LET periods == SortSet({PeriodOf(rows[i].date) : i \in 1..Len(rows)})
        grp(p) == {i \in 1..Len(rows) : PeriodOf(rows[i].date) = p}
        one(p) ==
            LET n == Cardinality(grp(p))
                Fixed_cost == daily_rate * n
                Variable_cost == SumAt(daily_cost, grp(p)) - daily_rate * n
            IN [Title |-> title, Month |-> MonthLabel(p),
                Monthly_kWh |-> SumAt(daily_kwh, grp(p)), Days_in_month |-> n,
                Fixed_cost |-> Fixed_cost, Variable_cost |-> Variable_cost,
                Total_cost |-> Fixed_cost + Variable_cost]
    IN [k \in 1..Len(periods) |-> one(periods[k])]

Column(table, f) == [k \in 1..Len(table) |-> table[k][f]]

\* the total summary row of a plan's monthly table
calc_total_row(title, monthly) ==
    [Title |-> title, Month |-> "TOTAL",
     Monthly_kWh |-> Round2Kwh(SumSeq(Column(monthly, "Monthly_kWh"))),
     Days_in_month |-> SumSeq(Column(monthly, "Days_in_month")),
     Fixed_cost |-> Round2(SumSeq(Column(monthly, "Fixed_cost"))),
     Variable_cost |-> Round2(SumSeq(Column(monthly, "Variable_cost"))),
     Total_cost |-> Round2(SumSeq(Column(monthly, "Total_cost")))]

\* for plan in rate_plans: the head of one iteration
calc_PlanBegin ==
    /\ prog = "calc" /\ pc = "plan" /\ plan_ix < Len(rate_plans)
    /\ plan_ix' = plan_ix + 1
    /\ daily_costs' = NewDailyCosts(daily_costs)
    /\ loop_ix' = 1
    /\ pc' = "rows"
    /\ UNCHANGED <<prog, rate_plans, df, df_daily_kwh, df_daily_cost, df_all,
                   daily_results, all_results, out_file>>
    /\ UNCHANGED evvars

\* for idx, row in df.iterrows(): one day; a ValueError ends the run
calc_DayRow ==
    /\ prog = "calc" /\ pc = "rows" /\ loop_ix <= Len(df)
    /\ LET c == calc_daily_cost(rate_plans[plan_ix], df[loop_ix])
       IN IF c.err
          THEN /\ pc' = "aborted"
               /\ UNCHANGED <<daily_costs, loop_ix>>
          ELSE /\ daily_costs' = Append(daily_costs, c.v)
               /\ loop_ix' = loop_ix + 1
               /\ pc' = pc
    /\ UNCHANGED <<prog, rate_plans, df, df_daily_kwh, df_daily_cost, df_all, plan_ix,
                   daily_results, all_results, out_file>>
    /\ UNCHANGED evvars

\* after the day loop: the two columns written into df, the monthly table,
\* its total row, and the append to all_results
calc_Rollup ==
    /\ prog = "calc" /\ pc = "rows" /\ loop_ix > Len(df)
    /\ df_daily_kwh' = [i \in 1..Len(df) |-> SumSeq(df[i].slots)]
    /\ df_daily_cost' = daily_costs
    /\ LET plan == rate_plans[plan_ix]
           monthly == calc_monthly(plan.title, plan.daily_rate, df,
                                   df_daily_kwh', df_daily_cost')
       IN all_results' =
              Append(all_results, monthly \o <<calc_total_row(plan.title, monthly)>>)
    /\ pc' = "plan"
    /\ UNCHANGED <<prog, rate_plans, df, df_all, plan_ix, loop_ix, daily_costs,
                   daily_results, out_file>>
    /\ UNCHANGED evvars

\* final_df = pd.concat(all_results); final_df.to_csv(out_file)
calc_Save ==
    /\ prog = "calc" /\ pc = "plan" /\ plan_ix = Len(rate_plans)
    /\ out_file' = <<Concat(all_results)>>
    /\ pc' = "done"
    /\ UNCHANGED <<prog, rate_plans, df, df_daily_kwh, df_daily_cost, df_all, plan_ix,
                   loop_ix, daily_costs, daily_results, all_results>>
    /\ UNCHANGED evvars

\* --------------------------------------------------------- eip13a inputs
Reading(date, minute, dir, kwh) ==
    [date |-> date, minute |-> minute, dir |-> dir, kwh |-> kwh]

\* readings of the EIEP13A files (read_start as date and minute of the day)
EipReadingPool ==
    { Reading(4, 0, "I", 10), Reading(4, 450, "X", 4), Reading(5, 1410, "I", 3),
      Reading(33, 420, "X", 5), Reading(31, 30, "Z", 7) }

EipPlan(title, daily_rate, per_kwh_rate, bands, fixed_discount, export_rates) ==
    [title |-> title, daily_rate |-> daily_rate, per_kwh_rate |-> per_kwh_rate,
     bands |-> bands, fixed_discount |-> fixed_discount, export_rates |-> export_rates]

ExportRates(wd, we, flat) == [weekday |-> wd, weekend |-> we, flat |-> flat]

EipFlat == EipPlan("flat", 100, <<30>>, <<>>, <<>>, <<ExportRates(<<>>, <<>>, <<10>>)>>)
EipBanded ==
    EipPlan("banded", 50, <<>>,
            <<[weekday |-> <<Band(T0000, T0700, 10), Band(T0700, T0000, 20)>>,
               weekend |-> <<Band(T0000, T0000, 30)>>]>>,
            <<10>>,
            <<ExportRates(<<<<Band(T0700, T2330, 10)>>>>, <<>>, <<20>>)>>)
EipNoExport == EipPlan("noexport", 70, <<20>>, <<>>, <<10>>, <<>>)
EipLazy ==
    EipPlan("lazy", 0, <<>>,
            <<[weekday |-> <<Band(T0000, T0000, 10), Band(TNoColon, T0700, 20)>>,
               weekend |-> <<Band(T0000, T0700, 10), Band(T0700, TNotInt, 20)>>]>>,
            <<0>>,
            <<ExportRates(<<>>, <<<<Band(T0000, T0000, 10)>>>>, <<>>)>>)

EipPlanPool == {EipFlat, EipBanded, EipNoExport, EipLazy}

\* --------------------------------------------------------- eip13a.py main
\* the cost one import ("I") reading adds to imports
eip_import_cost(plan, is_weekend, kwh, interval_td) ==
    IF plan.bands # <<>>
    THEN LET applicable == IF is_weekend THEN plan.bands[1].weekend
                           ELSE plan.bands[1].weekday
         IN eip_calculate_band_cost(kwh, interval_td, applicable)
    ELSE LET rate == IF plan.per_kwh_rate # <<>> THEN plan.per_kwh_rate[1] ELSE 0
         IN Ok(kwh * rate)

\* faulty variant: export bands are never looked at
eip_export_credit_FlatOnly(plan, is_weekend, kwh, interval_td) ==
    IF plan.export_rates # <<>> /\ plan.export_rates[1].flat # <<>>
    THEN Ok(kwh * plan.export_rates[1].flat[1])
    ELSE Ok(0)

\* the credit one export ("X") reading adds to exports; "if export_rates:"
\* is false for None and for a dict without keys, "if applicable:" for a
\* missing key and for an empty list
eip_export_credit(plan, is_weekend, kwh, interval_td) ==
    IF /\ plan.export_rates # <<>>
       /\ plan.export_rates[1] # ExportRates(<<>>, <<>>, <<>>)
    THEN LET applicable == IF is_weekend THEN plan.export_rates[1].weekend
                           ELSE plan.export_rates[1].weekday
         IN IF applicable # <<>> /\ applicable[1] # <<>>
            THEN eip_calculate_band_cost(kwh, interval_td, applicable[1])
            ELSE LET rate == IF plan.export_rates[1].flat # <<>>
                             THEN plan.export_rates[1].flat[1] ELSE 0
                 IN Ok(kwh * rate)
    ELSE Ok(0)

\* for _, row in group.iterrows(): imports and exports after the rows of group
RECURSIVE eip_group_sums(_, _, _, _)
eip_group_sums(plan, is_weekend, group, acc) ==
    IF group = <<>> THEN Ok(acc)
    ELSE LET row == Head(group)
             c == IF row.dir = "I"
                  THEN eip_import_cost(plan, is_weekend, row.kwh, row.minute)
                  ELSE IF row.dir = "X"
                       THEN eip_export_credit(plan, is_weekend, row.kwh, row.minute)
                       ELSE Ok(0)
         IN IF c.err THEN ParseError
            ELSE eip_group_sums(plan, is_weekend, Tail(group),
                     [imports |-> acc.imports + (IF row.dir = "I" THEN c.v ELSE 0),
                      exports |-> acc.exports + (IF row.dir = "X" THEN c.v ELSE 0)])

\* df_all.groupby("date"): the dates ascending, each with its rows in file order
GroupDates(readings) == SortSet({readings[i].date : i \in 1..Len(readings)})

GroupOf(readings, date) == SelectSeq(readings, LAMBDA r : r.date = date)

\* one iteration of the loop over the date groups: the tuple appended to
\* daily_results
eip_day_result(plan, date, group) ==
    LET is_weekend == weekday(date) >= WeekendFrom
        sums == eip_group_sums(plan, is_weekend, group, [imports |-> 0, exports |-> 0])
    IN IF sums.err THEN ParseError
       ELSE Ok([date |-> date,
                daily_cost |-> plan.daily_rate + sums.v.imports - sums.v.exports,
                imports |-> sums.v.imports, exports |-> sums.v.exports])

\* plan.get("fixed_discount", 0.0)
FixedDiscount(plan) == IF plan.fixed_discount # <<>> THEN plan.fixed_discount[1] ELSE 0

\* faulty variant: fixed_discount is never applied
eip_monthly_NoDiscount(title, daily_rate, fixed_discount, daily) ==
    LET periods == SortSet({PeriodOf(daily[i].date) : i \in 1..Len(daily)})
        grp(p) == {i \in 1..Len(daily) : PeriodOf(daily[i].date) = p}
        one(p) ==
            LET n == Cardinality(grp(p))
                Fixed_cost == daily_rate * n
                Variable_cost == SumAt(Column(daily, "imports"), grp(p))
                Credits == SumAt(Column(daily, "exports"), grp(p))
                totalcost == Fixed_cost + Variable_cost
                Total_cost == Fixed_cost + Variable_cost - Credits
            IN [Title |-> title, Month |-> MonthLabel(p), Days_in_month |-> n,
                Fixed_cost |-> Fixed_cost, Variable_cost |-> Variable_cost,
                Credits |-> Credits,
                Discounts |-> 0,
                Total_cost |-> Total_cost,
                totalcostnotadjusted |-> totalcost]
    IN [k \in 1..Len(periods) |-> one(periods[k])]

\* daily_df.groupby(month).agg(...), Total_cost, Discounts, totalcostnotadjusted,
\* Title and Month: one row per month, ascending
eip_monthly(title, daily_rate, fixed_discount, daily) ==
    LET periods == SortSet({PeriodOf(daily[i].date) : i \in 1..Len(daily)})
        grp(p) == {i \in 1..Len(daily) : PeriodOf(daily[i].date) = p}
        one(p) ==
            LET n == Cardinality(grp(p))
                Fixed_cost == daily_rate * n
                Variable_cost == SumAt(Column(daily, "imports"), grp(p))
                Credits == SumAt(Column(daily, "exports"), grp(p))
                totalcost == Fixed_cost + Variable_cost
                Total_cost == Fixed_cost + Variable_cost - Credits
            IN [Title |-> title, Month |-> MonthLabel(p), Days_in_month |-> n,
                Fixed_cost |-> Fixed_cost, Variable_cost |-> Variable_cost,
                Credits |-> Credits,
                Discounts |-> IF fixed_discount # 0
                              THEN (Total_cost * fixed_discount) \div 100 ELSE 0,
                Total_cost |-> IF fixed_discount # 0
                               THEN (Total_cost * (100 - fixed_discount)) \div 100
                               ELSE Total_cost,
                totalcostnotadjusted |-> totalcost]
    IN [k \in 1..Len(periods) |-> one(periods[k])]

\* faulty variant: the sums are not rounded
eip_total_row_Unrounded(title, monthly) ==
    [Title |-> title, Month |-> "TOTAL",
     Days_in_month |-> SumSeq(Column(monthly, "Days_in_month")),
     Fixed_cost |-> SumSeq(Column(monthly, "Fixed_cost")),
     Variable_cost |-> SumSeq(Column(monthly, "Variable_cost")),
     Credits |-> SumSeq(Column(monthly, "Credits")),
     Discounts |-> SumSeq(Column(monthly, "Discounts")),
     Total_cost |-> SumSeq(Column(monthly, "Total_cost")),
     totalcostnotadjusted |-> SumSeq(Column(monthly, "totalcostnotadjusted"))]

\* the total summary row of a plan's monthly table
eip_total_row(title, monthly) ==
    [Title |-> title, Month |-> "TOTAL",
     Days_in_month |-> SumSeq(Column(monthly, "Days_in_month")),
     Fixed_cost |-> Round2(SumSeq(Column(monthly, "Fixed_cost"))),
     Variable_cost |-> Round2(SumSeq(Column(monthly, "Variable_cost"))),
     Credits |-> Round2(SumSeq(Column(monthly, "Credits"))),
     Discounts |-> Round2(SumSeq(Column(monthly, "Discounts"))),
     Total_cost |-> Round2(SumSeq(Column(monthly, "Total_cost"))),
     totalcostnotadjusted |-> Round2(SumSeq(Column(monthly, "totalcostnotadjusted")))]

\* for plan in rate_plans: the head of one iteration (daily_results = [])
eip_PlanBegin ==
    /\ prog = "eip" /\ pc = "plan" /\ plan_ix < Len(rate_plans)
    /\ plan_ix' = plan_ix + 1
    /\ daily_results' = <<>>
    /\ loop_ix' = 1
    /\ pc' = "rows"
    /\ UNCHANGED <<prog, rate_plans, df, df_daily_kwh, df_daily_cost, df_all,
                   daily_costs, all_results, out_file>>
    /\ UNCHANGED evvars

\* for date, group in df_all.groupby("date"): one day; a ValueError ends the run
eip_Day ==
    /\ prog = "eip" /\ pc = "rows" /\ loop_ix <= Len(GroupDates(df_all))
    /\ LET date == GroupDates(df_all)[loop_ix]
           r == eip_day_result(rate_plans[plan_ix], date, GroupOf(df_all, date))
       IN IF r.err
          THEN /\ pc' = "aborted"
               /\ UNCHANGED <<daily_results, loop_ix>>
          ELSE /\ daily_results' = Append(daily_results, r.v)
               /\ loop_ix' = loop_ix + 1
               /\ pc' = pc
    /\ UNCHANGED <<prog, rate_plans, df, df_daily_kwh, df_daily_cost, df_all, plan_ix,
                   daily_costs, all_results, out_file>>
    /\ UNCHANGED evvars

\* after the day loop: the monthly table, its total row, and the two
\* all_results.append(monthly) statements
eip_Rollup ==
    /\ prog = "eip" /\ pc = "rows" /\ loop_ix > Len(GroupDates(df_all))
    /\ LET plan == rate_plans[plan_ix]
           monthly == eip_monthly(plan.title, plan.daily_rate, FixedDiscount(plan),
                                  daily_results)
           table == monthly \o <<eip_total_row(plan.title, monthly)>>
       IN all_results' = Append(Append(all_results, table), table)
    /\ pc' = "plan"
    /\ UNCHANGED <<prog, rate_plans, df, df_daily_kwh, df_daily_cost, df_all, plan_ix,
                   loop_ix, daily_costs, daily_results, out_file>>
    /\ UNCHANGED evvars

\* final_df = pd.concat(all_results); final_df.to_csv(out_file)
eip_Save ==
    /\ prog = "eip" /\ pc = "plan" /\ plan_ix = Len(rate_plans)
    /\ out_file' = <<Concat(all_results)>>
    /\ pc' = "done"
    /\ UNCHANGED <<prog, rate_plans, df, df_daily_kwh, df_daily_cost, df_all, plan_ix,
                   loop_ix, daily_costs, daily_results, all_results>>
    /\ UNCHANGED evvars

\* ------------------------------------------------- the two programs: Spec
InitCalc ==
    /\ prog = "calc"
    /\ rate_plans \in SeqsUpTo(CalcPlanPool, MaxPlans)
    /\ df \in SeqsUpTo(CalcRowPool, MaxRows)
    /\ df_all = <<>>

InitEip ==
    /\ prog = "eip"
    /\ rate_plans \in SeqsUpTo(EipPlanPool, MaxPlans)
    /\ df_all \in SeqsUpTo(EipReadingPool, MaxRows)
    /\ df = <<>>

Init ==
    /\ (InitCalc \/ InitEip)
    /\ df_daily_kwh = <<>> /\ df_daily_cost = <<>>
    /\ pc = "plan" /\ plan_ix = 0 /\ loop_ix = 0
    /\ daily_costs = <<>> /\ daily_results = <<>>
    /\ all_results = <<>> /\ out_file = <<>>
    /\ ev_q = 0 /\ ev_t = 0 /\ ev_bands = <<>> /\ ev_eip = <<>> /\ ev_calc = <<>>

Next ==
    \/ calc_PlanBegin \/ calc_DayRow \/ calc_Rollup \/ calc_Save
    \/ eip_PlanBegin \/ eip_Day \/ eip_Rollup \/ eip_Save

Spec == Init /\ [][Next]_vars

\* ------------------------------------- the band cost evaluators: SpecBand
InitBand ==
    /\ prog = "band"
    /\ ev_q \in 0..MaxQ
    /\ ev_t \in OffsetPool
    /\ ev_bands \in {<<>>} \cup SeqsUpTo(BandPool, MaxBands)
    /\ ev_eip = <<>> /\ ev_calc = <<>>
    /\ rate_plans = <<>> /\ df = <<>> /\ df_all = <<>>
    /\ df_daily_kwh = <<>> /\ df_daily_cost = <<>>
    /\ pc = "plan" /\ plan_ix = 0 /\ loop_ix = 0
    /\ daily_costs = <<>> /\ daily_results = <<>>
    /\ all_results = <<>> /\ out_file = <<>>

\* eip13a.calculate_band_cost(kwh, interval_time, bands)
EvalEip ==
    /\ prog = "band" /\ ev_eip = <<>>
    /\ ev_eip' = <<eip_calculate_band_cost(ev_q, ev_t, ev_bands)>>
    /\ UNCHANGED <<ev_q, ev_t, ev_bands, ev_calc>>
    /\ UNCHANGED progvars

\* calculate.calculate_band_cost on a day of one slot at offset ev_t
EvalCalc ==
    /\ prog = "band" /\ ev_calc = <<>>
    /\ ev_calc' = <<calc_calculate_band_cost(<<ev_q>>, <<ev_t>>,
                        [weekday |-> ev_bands, weekend |-> <<>>], FALSE)>>
    /\ UNCHANGED <<ev_q, ev_t, ev_bands, ev_eip>>
    /\ UNCHANGED progvars

NextBand == EvalEip \/ EvalCalc

SpecBand == InitBand /\ [][NextBand]_vars

\* ================================================================ claims
\* What the claims say, stated without the operators that model the code.

\* a band matches offset t: start <= t < end, end read as 24:00 when written 00:00
ClaimMatches(b, t) ==
    LET start == parse_time_str(b.start)
        end == parse_time_str(b.end)
    IN /\ ~start.err /\ ~end.err
       /\ start.v <= t
       /\ t < (IF b.end = T0000 THEN 24 * 60 ELSE end.v)

\* q * rate of the first band of the list that matches t, 0 when none does
FirstMatchCost(q, t, bands) ==
    LET M == {i \in 1..Len(bands) : ClaimMatches(bands[i], t)}
    IN IF M = {} THEN 0
       ELSE q * bands[CHOOSE i \in M : \A j \in M : i <= j].rate

Evaluated == prog = "band" /\ ev_eip # <<>> /\ ev_calc # <<>>

\* C1: for every quantity, offset and ordered list of well-formed bands,
\* overlapping or not, both calculate_band_cost implementations return
\* quantity * rate of the first band in list order that matches the offset,
\* and 0 when no band matches.
C1_FirstMatchWins ==
    (prog = "band" /\ WellFormed(ev_bands)) =>
        /\ ev_eip # <<>> => ev_eip[1] = Ok(FirstMatchCost(ev_q, ev_t, ev_bands))
        /\ ev_calc # <<>> => ev_calc[1] = Ok(FirstMatchCost(ev_q, ev_t, ev_bands))

\* two overlapping bands of different rates both match, and both evaluators ran
C1_Witness ==
    /\ Evaluated /\ WellFormed(ev_bands) /\ ev_q > 0 /\ Len(ev_bands) >= 2
    /\ ClaimMatches(ev_bands[1], ev_t) /\ ClaimMatches(ev_bands[2], ev_t)
    /\ ev_bands[1].rate # ev_bands[2].rate
    /\ ev_eip[1].v = ev_q * ev_bands[1].rate

\* C2: a band whose end is written "00:00" matches offset t exactly when
\* start <= t, as if its end were 24:00, in both programs; and when it does
\* not match, the bands after it are compared with their own ends.
C2_MidnightEndIsEndOfDay ==
    (/\ prog = "band" /\ WellFormed(ev_bands) /\ ev_bands # <<>>
     /\ ev_bands[1].end = T0000 /\ ev_t < 24 * 60) =>
        LET b == ev_bands[1]
            expected == IF parse_time_str(b.start).v <= ev_t
                        THEN ev_q * b.rate
                        ELSE FirstMatchCost(ev_q, ev_t, Tail(ev_bands))
        IN /\ ev_eip # <<>> => ev_eip[1] = Ok(expected)
           /\ ev_calc # <<>> => ev_calc[1] = Ok(expected)

\* the band 23:30-00:00 is charged for the slot at 23:30
C2_Witness ==
    /\ Evaluated /\ ev_bands # <<>> /\ ev_q > 0
    /\ ev_bands[1].start = T2330 /\ ev_bands[1].end = T0000 /\ ev_t = 1410
    /\ ev_eip[1] = Ok(ev_q * ev_bands[1].rate)
    /\ ev_calc[1] = Ok(ev_q * ev_bands[1].rate)

\* the plan a table of all_results was computed for
PlanOfBlock(k) == IF prog = "eip" THEN rate_plans[(k + 1) \div 2] ELSE rate_plans[k]

\* the dates of the daily records (the same for every plan)
DayDates ==
    IF prog = "calc" THEN [i \in 1..Len(df) |-> df[i].date]
    ELSE SortSet({df_all[i].date : i \in 1..Len(df_all)})

\* the daily records, among those of the given dates, of the month written
\* as label
DaysIn(dates, label) ==
    {i \in 1..Len(dates) : MonthLabel(PeriodOf(dates[i])) = label}

ClaimDiscount(plan) == IF plan.fixed_discount = <<>> THEN 0 ELSE plan.fixed_discount[1]

\* C3: every monthly row of every plan has Fixed_cost = daily_rate *
\* Days_in_month, Days_in_month being the number of daily records of the
\* month; wide format: Variable_cost = sum(daily_cost) - Fixed_cost and
\* Total_cost = Fixed_cost + Variable_cost; import/export: Total_cost =
\* (Fixed + Variable - Credits) * (1 - discount/100) and Discounts =
\* (Fixed + Variable - Credits) * discount/100, discount 0 when unset.
C3_RollupIdentities ==
    LET dates == DayDates
    IN \A k \in 1..Len(all_results) : \A j \in 1..Len(all_results[k]) :
        LET r == all_results[k][j]
            plan == PlanOfBlock(k)
            days == DaysIn(dates, r.Month)
        IN r.Month # "TOTAL" =>
            /\ r.Days_in_month = Cardinality(days)
            /\ r.Fixed_cost = plan.daily_rate * r.Days_in_month
            /\ prog = "calc" =>
                /\ r.Total_cost = r.Fixed_cost + r.Variable_cost
                /\ k = Len(all_results) =>
                       r.Variable_cost =
                           SumAt(df_daily_cost, days) - r.Fixed_cost
            /\ prog = "eip" =>
                LET pre == r.Fixed_cost + r.Variable_cost - r.Credits
                IN /\ 100 * r.Total_cost = pre * (100 - ClaimDiscount(plan))
                   /\ 100 * r.Discounts = pre * ClaimDiscount(plan)

\* a discounted month of two days with export credits has been rolled up
C3_Witness ==
    /\ prog = "eip" /\ all_results # <<>>
    /\ \E j \in 1..Len(all_results[1]) :
           LET r == all_results[1][j]
           IN /\ r.Month # "TOTAL" /\ r.Days_in_month >= 2 /\ r.Credits > 0
              /\ r.Discounts > 0 /\ r.Fixed_cost > 0
              /\ ClaimDiscount(rate_plans[1]) > 0

\* C4 as written: totalcostnotadjusted of every monthly row of the
\* import/export program equals Fixed_cost + Variable_cost - Credits, the
\* total before the discount.
C4_PreDiscountTotal ==
    prog = "eip" =>
        \A k \in 1..Len(all_results) : \A j \in 1..Len(all_results[k]) :
            LET r == all_results[k][j]
            IN r.Month # "TOTAL" =>
                   r.totalcostnotadjusted = r.Fixed_cost + r.Variable_cost - r.Credits

\* C4 as amended: totalcostnotadjusted of every monthly row equals
\* Fixed_cost + Variable_cost, the total before export credits and
\* discounts, so that Total_cost = (totalcostnotadjusted - Credits) *
\* (1 - fixed_discount/100).
C4_BeforeCreditsAndDiscounts ==
    prog = "eip" =>
        \A k \in 1..Len(all_results) : \A j \in 1..Len(all_results[k]) :
            LET r == all_results[k][j]
            IN r.Month # "TOTAL" =>
                /\ r.totalcostnotadjusted = r.Fixed_cost + r.Variable_cost
                /\ 100 * r.Total_cost =
                       (r.totalcostnotadjusted - r.Credits)
                           * (100 - ClaimDiscount(PlanOfBlock(k)))

\* a discounted monthly row with export credits
C4_Witness ==
    /\ prog = "eip" /\ all_results # <<>>
    /\ \E j \in 1..Len(all_results[1]) :
           LET r == all_results[1][j]
           IN /\ r.Month # "TOTAL" /\ r.Credits > 0 /\ r.Discounts > 0
              /\ r.Total_cost < r.totalcostnotadjusted - r.Credits

\* y is x rounded to the nearest multiple of m (ties to the even multiple)
IsRounded(y, x, m) ==
    /\ y % m = 0
    /\ 2 * (y - x) <= m /\ 2 * (x - y) <= m
    /\ (2 * (y - x) = m \/ 2 * (x - y) = m) => (y \div m) % 2 = 0

MoneyColumns ==
    IF prog = "eip"
    THEN {"Fixed_cost", "Variable_cost", "Credits", "Discounts", "Total_cost",
          "totalcostnotadjusted"}
    ELSE {"Fixed_cost", "Variable_cost", "Total_cost"}

\* the sum of column f over the first n rows of a table
RECURSIVE ColumnSum(_, _, _)
ColumnSum(table, f, n) ==
    IF n = 0 THEN 0 ELSE table[n][f] + ColumnSum(table, f, n - 1)

\* C5: the last row of every plan's table is its TOTAL row: Month "TOTAL",
\* the plan's title, Days_in_month the sum over the plan's monthly rows and
\* every other numeric field the sum over the plan's monthly rows rounded
\* to 2 decimals; the rows before it are the plan's monthly rows only.
C5_TotalRow ==
    \A k \in 1..Len(all_results) :
        LET block == all_results[k]
            n == Len(block) - 1
            total == block[Len(block)]
        IN /\ n >= 1
           /\ total.Month = "TOTAL" /\ total.Title = PlanOfBlock(k).title
           /\ \A j \in 1..n :
                  block[j].Month # "TOTAL" /\ block[j].Title = PlanOfBlock(k).title
           /\ total.Days_in_month = ColumnSum(block, "Days_in_month", n)
           /\ \A f \in MoneyColumns :
                  IsRounded(total[f], ColumnSum(block, f, n), 100)
           /\ prog = "calc" =>
                  IsRounded(total.Monthly_kWh, ColumnSum(block, "Monthly_kWh", n), 2)

\* a TOTAL row over two months whose rounding changed a sum
C5_Witness ==
    \E k \in 1..Len(all_results) :
        LET block == all_results[k]
            n == Len(block) - 1
        IN /\ n >= 2
           /\ block[Len(block)].Total_cost # ColumnSum(block, "Total_cost", n)
           /\ block[Len(block)].Fixed_cost = ColumnSum(block, "Fixed_cost", n)

\* the monthly periods of the readings, and the period a label stands for
DataPeriods ==
    IF prog = "calc" THEN {PeriodOf(df[i].date) : i \in 1..Len(df)}
    ELSE {PeriodOf(df_all[i].date) : i \in 1..Len(df_all)}

PeriodOfLabel(label) == CHOOSE p \in DataPeriods : MonthLabel(p) = label

\* C6: the output file is the concatenation, in plan declaration order, of
\* every plan's block exactly once: the plan's monthly rows, one per month
\* of the readings in ascending month order, then the plan's TOTAL row; so
\* the file holds exactly one TOTAL row per configured plan.
C6_OneBlockPerPlan ==
    pc = "done" =>
        LET rows == out_file[1]
            T == {i \in 1..Len(rows) : rows[i].Month = "TOTAL"}
            blockOf(i) == 1 + Cardinality({t \in T : t < i})
        IN /\ Cardinality(T) = Len(rate_plans)
           /\ Len(rows) = Len(rate_plans) * (Cardinality(DataPeriods) + 1)
           /\ rows[Len(rows)].Month = "TOTAL"
           /\ \A i \in 1..Len(rows) :
                  /\ blockOf(i) <= Len(rate_plans)
                  /\ rows[i].Title = rate_plans[blockOf(i)].title
                  /\ (i > 1 /\ i \notin T /\ (i - 1) \notin T) =>
                         PeriodOfLabel(rows[i - 1].Month) < PeriodOfLabel(rows[i].Month)

\* the band lists the plans apply to the days of the readings
AppliedLists ==
    IF prog = "calc"
    THEN {IF df[i].date % 7 \in {5, 6} THEN rate_plans[k].bands[1].weekend
          ELSE rate_plans[k].bands[1].weekday :
              k \in {n \in 1..Len(rate_plans) : rate_plans[n].bands # <<>>},
              i \in 1..Len(df)}
    ELSE {IF df_all[i].date % 7 \in {5, 6} THEN rate_plans[k].bands[1].weekend
          ELSE rate_plans[k].bands[1].weekday :
              k \in {n \in 1..Len(rate_plans) : rate_plans[n].bands # <<>>},
              i \in {n \in 1..Len(df_all) : df_all[n].dir = "I"}}
         \cup
         {(IF df_all[i].date % 7 \in {5, 6} THEN rate_plans[k].export_rates[1].weekend
           ELSE rate_plans[k].export_rates[1].weekday)[1] :
              <<k, i>> \in
                  {<<n, m>> \in (1..Len(rate_plans)) \X (1..Len(df_all)) :
                      /\ df_all[m].dir = "X"
                      /\ rate_plans[n].export_rates # <<>>
                      /\ (IF df_all[m].date % 7 \in {5, 6}
                          THEN rate_plans[n].export_rates[1].weekend
                          ELSE rate_plans[n].export_rates[1].weekday) # <<>>}}

\* C7: when a band list applied to a day holds a band whose start or end is
\* not two colon-separated integers, the run aborts and no output file is
\* written, wherever the band stands in its list.
C7_MalformedBandIsFatal ==
    (\E L \in AppliedLists : ~WellFormed(L)) => (pc # "done" /\ out_file = <<>>)

\* C8: wide format: the daily cost of every day row is daily_rate plus, for
\* a plan with bands, the sum over the slots (slot i at 30 * i minutes) of
\* the first-match cost against the weekend list when the weekday index is
\* >= 5 and the weekday list otherwise, per_kwh_rate being ignored; for a
\* plan without bands, the sum of the slots times per_kwh_rate (0 if absent).
C8_WideDailyCost ==
    prog = "calc" =>
        \A k \in 1..Len(daily_costs) :
            LET plan == rate_plans[plan_ix]
                row == df[k]
                L == IF row.date % 7 \in {5, 6} THEN plan.bands[1].weekend
                     ELSE plan.bands[1].weekday
                banded == SumSeq([i \in 1..Len(row.slots) |->
                                     FirstMatchCost(row.slots[i], 30 * (i - 1), L)])
                flat == SumSeq(row.slots)
                            * (IF plan.per_kwh_rate = <<>> THEN 0
                               ELSE plan.per_kwh_rate[1])
            IN daily_costs[k] =
                   plan.daily_rate + (IF plan.bands # <<>> THEN banded ELSE flat)

\* a weekend day of a banded plan that also carries a per_kwh_rate
C8_Witness ==
    /\ prog = "calc" /\ daily_costs # <<>>
    /\ rate_plans[plan_ix].bands # <<>> /\ rate_plans[plan_ix].per_kwh_rate # <<>>
    /\ df[1].date % 7 = 5
    /\ daily_costs[1] > rate_plans[plan_ix].daily_rate
    /\ daily_costs[1] # rate_plans[plan_ix].daily_rate
                            + SumSeq(df[1].slots) * rate_plans[plan_ix].per_kwh_rate[1]

ClaimImport(plan, r) ==
    IF plan.bands # <<>>
    THEN FirstMatchCost(r.kwh, r.minute,
                        IF r.date % 7 \in {5, 6} THEN plan.bands[1].weekend
                        ELSE plan.bands[1].weekday)
    ELSE r.kwh * (IF plan.per_kwh_rate = <<>> THEN 0 ELSE plan.per_kwh_rate[1])

ClaimExport(plan, r) ==
    IF plan.export_rates = <<>> THEN 0
    ELSE LET er == plan.export_rates[1]
             L == IF r.date % 7 \in {5, 6} THEN er.weekend ELSE er.weekday
         IN IF L # <<>> /\ L[1] # <<>> THEN FirstMatchCost(r.kwh, r.minute, L[1])
            ELSE IF er.flat # <<>> THEN r.kwh * er.flat[1]
            ELSE 0

\* C9: import/export: every day's record has imports = the sum over the
\* day's "I" readings of the banded-or-flat import cost, exports = the sum
\* over the day's "X" readings of the band evaluation against the export
\* list of the day's bucket when that list is defined, else kwh * the flat
\* export rate when there is one, else 0; and daily_cost = daily_rate +
\* imports - exports.
C9_ImportExportDailyCost ==
    prog = "eip" =>
        LET dates == DayDates
        IN \A k \in 1..Len(daily_results) :
            LET rec == daily_results[k]
                plan == rate_plans[plan_ix]
                ins == SelectSeq(df_all, LAMBDA r : r.date = rec.date /\ r.dir = "I")
                outs == SelectSeq(df_all, LAMBDA r : r.date = rec.date /\ r.dir = "X")
            IN /\ rec.date = dates[k]
               /\ rec.imports = SumSeq([i \in 1..Len(ins) |-> ClaimImport(plan, ins[i])])
               /\ rec.exports = SumSeq([i \in 1..Len(outs) |-> ClaimExport(plan, outs[i])])
               /\ rec.daily_cost = plan.daily_rate + rec.imports - rec.exports

\* a day with an import and a banded export credit
C9_Witness ==
    /\ prog = "eip" /\ daily_results # <<>>
    /\ daily_results[1].imports > 0 /\ daily_results[1].exports > 0
    /\ rate_plans[plan_ix].export_rates # <<>>
    /\ rate_plans[plan_ix].export_rates[1].weekday # <<>>
    /\ daily_results[1].date % 7 < 5
    /\ daily_results[1].daily_cost
           = rate_plans[plan_ix].daily_rate
                 + daily_results[1].imports - daily_results[1].exports

\* the table a plan gets when it is computed from the readings alone
SoloBlock(plan) ==
    IF prog = "calc"
    THEN LET kwh == [i \in 1..Len(df) |-> SumSeq(df[i].slots)]
             cost == [i \in 1..Len(df) |-> calc_daily_cost(plan, df[i]).v]
             monthly == calc_monthly(plan.title, plan.daily_rate, df, kwh, cost)
         IN monthly \o <<calc_total_row(plan.title, monthly)>>
    ELSE LET dates == GroupDates(df_all)
             daily == [k \in 1..Len(dates) |->
                          eip_day_result(plan, dates[k], GroupOf(df_all, dates[k])).v]
             monthly == eip_monthly(plan.title, plan.daily_rate, FixedDiscount(plan),
                                    daily)
         IN monthly \o <<eip_total_row(plan.title, monthly)>>

\* C10: the monthly rows and TOTAL row produced for a plan are those the
\* plan gets from the readings alone, whatever plans are configured before
\* or after it and in whatever order: nothing an earlier plan's iteration
\* left behind (the daily_kwh and daily_cost columns of the shared reading
\* table, the daily cost list) reaches a later plan's rows.
C10_PlansIndependent ==
    \A n \in 1..Len(rate_plans) :
        LET solo == SoloBlock(rate_plans[n])
        IN \A k \in 1..Len(all_results) :
               PlanOfBlock(k) = rate_plans[n] => all_results[k] = solo

\* two different plans have been rolled up over the shared reading table
C10_Witness ==
    /\ prog = "calc" /\ Len(all_results) >= 2 /\ df_daily_cost # <<>>
    /\ rate_plans[1] # rate_plans[2]
    /\ all_results[1][1].Total_cost # all_results[2][1].Total_cost

=============================================================================
